---- MODULE Spec2Model ----
(***************************************************************************)
(* Turn orchestration engine of the Agentic Storyteller backend            *)
(* (backend/app/services/game_engine.py, llm_factory.py, routers/story.py).*)
(*                                                                         *)
(* Python values are modelled as follows.                                  *)
(*   str            a TLA+ string; the few strings the model draws from    *)
(*                  are listed per generation stage below                  *)
(*   None           the string None_ ("<None>"), which no capability       *)
(*                  returns as text                                        *)
(*   dict           a function whose DOMAIN is the set of keys present     *)
(*   list           a sequence (Python index i is TLA+ index i + 1)        *)
(*   str.join(...)  the sequence of the joined parts                       *)
(* A request (one HTTP call of a router endpoint) occupies a slot of Reqs; *)
(* req[r] holds the locals of the engine function it is executing and      *)
(* req[r].pc names the blocking generation call it is waiting for, and     *)
(* req[r].game the GameSession object the function holds (by its key).     *)
(* A local is kept in req[r] as long as a later line of the function reads *)
(* it                                                                      *)
(* (reaction_raw and reaction_text until the function returns), and        *)
(* req[r].failed names the stages whose result is held and came from the   *)
(* except branch of the capability.                                        *)
(***************************************************************************)
EXTENDS Integers, Sequences, FiniteSets, TLC

VARIABLES
    GAMES,        \* game_engine.GAMES: session_id -> GameSession
    req,          \* per request slot: the locals of the running endpoint call
    queue,        \* requests submitted and not yet started, in submission order
    trace         \* history, per session: the actors rotate_active_actor
                  \* returned, the number of _update_summary calls, the
                  \* number of process_turn calls that returned the session,
                  \* the URL of the last generate_image_url call that
                  \* succeeded ("" before the first), and what the last
                  \* generate_image_url call yielded: the provider's URL,
                  \* or "" when it raised ("" before the first)

vars == <<GAMES, req, queue, trace>>

-----------------------------------------------------------------------------
(* Bounds of the model *)

MaxReqs == 2             \* requests that may be in flight at once
MaxSessions == 1         \* Spec: sessions that may be registered
MaxTurns == 4            \* Spec: process_turn calls admitted
MaxOverlapSessions == 1  \* SpecOverlap: sessions that may be registered
MaxOverlapTurns == 3     \* SpecOverlap: process_turn calls admitted
MaxRegistrySessions == 2 \* SpecRegistry: sessions that may be registered
MaxRegistryTurns == 2    \* SpecRegistry: process_turn calls admitted
MaxHistory == 5          \* SpecContext: longest narrative_history drawn
MaxContextTurns == 2     \* SpecContext: process_turn calls admitted after Init
MaxCastTurns == 3        \* SpecCast: process_turn calls admitted

Reqs == 1 .. MaxReqs
\* values uuid.uuid4() hands out
SessionIds == 1 .. (IF MaxSessions > MaxOverlapSessions
                    THEN MaxSessions ELSE MaxOverlapSessions)
\* values uuid.uuid4() hands out in any of the specifications
AllSessionIds ==
    1 .. (IF MaxRegistrySessions > Cardinality(SessionIds)
          THEN MaxRegistrySessions ELSE Cardinality(SessionIds))
UnknownId == 0                      \* an identifier create_game never issues

-----------------------------------------------------------------------------
(* Python helpers *)

None_ == "<None>"

EmptyDict == [k \in {} |-> None_]

\* dict.get(key, default)
Get(d, key, default) == IF key \in DOMAIN d THEN d[key] ELSE default

\* truth value of an Optional[str]
Truthy(v) == v # None_ /\ v # ""

Range(s) == {s[i] : i \in 1 .. Len(s)}

\* s[-n:]
LastN(s, n) == IF Len(s) <= n THEN s ELSE SubSeq(s, Len(s) - n + 1, Len(s))

\* "PASS" in text, for the texts the REACT stage can receive
ContainsPASS(text) == text \in {"PASS", "Niemand, also PASS."}

-----------------------------------------------------------------------------
(* The generation capabilities (llm_factory.py) *)

\* What the provider does with one request: it raises, or it answers with content.
\* In JSON mode the content is a document; json.loads accepts it (valid) or raises.
Raised == [status |-> "error"]
Answer(content) == [status |-> "ok", content |-> content]
Document(value) == [valid |-> TRUE, value |-> value]
Garbage == [valid |-> FALSE]

\* call_llm raised inside its try block for this outcome
LlmFailed(o, json_mode) ==
    \/ o.status = "error"
    \/ json_mode /\ ~o.content.valid

\* call_llm whose except branch hands back None instead of "" in text mode
call_llm_none_on_failure(o, json_mode) ==
    IF LlmFailed(o, json_mode)
    THEN (IF json_mode THEN EmptyDict ELSE None_)
    ELSE (IF json_mode THEN o.content.value ELSE o.content)

call_llm(o, json_mode) ==
    IF LlmFailed(o, json_mode)
    THEN (IF json_mode THEN EmptyDict ELSE "")
    ELSE (IF json_mode THEN o.content.value ELSE o.content)

\* generate_image_url whose except branch hands back None
generate_image_url_none(o) == IF o.status = "error" THEN None_ ELSE o.content

generate_image_url(o) == IF o.status = "error" THEN "" ELSE o.content

-----------------------------------------------------------------------------
(* Data structures (game_engine.py) *)

AgentKeys == {"name", "role", "description", "personality"}

\* an Agent that is eligible whatever its role
Agent_always_active(a, is_active) ==
    [name |-> a.name, role |-> a.role, description |-> a.description,
     personality |-> a.personality, is_active |-> TRUE]

\* @dataclass Agent; Agent(**a, is_active=...) raises TypeError unless the keys
\* of a are exactly the four required fields
Agent(a, is_active) ==
    [name |-> a.name, role |-> a.role, description |-> a.description,
     personality |-> a.personality, is_active |-> is_active]

NoAgent ==
    [name |-> "", role |-> "", description |-> "", personality |-> "",
     is_active |-> FALSE]

\* @dataclass StoryState with its defaults
StoryState ==
    [location |-> "Startpunkt", inventory |-> <<>>,
     current_quest |-> "Erkunde die Welt", active_threats |-> <<>>]

\* StoryState.to_string: location, inventory and quest (not the threats)
to_string(state) ==
    [Ort |-> state.location, Inventar |-> state.inventory,
     Ziel |-> state.current_quest]

\* f"Die Geschichte beginnt: {setting}"
InitialSummary(setting) ==
    CASE setting = "Raubzug in der Wolkenstadt" ->
             "Die Geschichte beginnt: Raubzug in der Wolkenstadt"
      [] OTHER -> "Die Geschichte beginnt: "

\* GameSession.__init__
GameSession(session_id, setting, agents, style) ==
    [session_id |-> session_id,
     setting |-> setting,
     agents |-> agents,
     visual_style |-> style,
     state |-> StoryState,
     narrative_history |-> <<>>,
     plot_summary |-> InitialSummary(setting),
     turn_count |-> 0,
     last_image_url |-> ""]

\* a context that renders the whole history
context_without_window(game) ==
    [status |-> to_string(game.state),
     zusammenfassung |-> game.plot_summary,
     szene |-> game.narrative_history]

\* GameSession.get_context_for_llm
get_context_for_llm(game) ==
    [status |-> to_string(game.state),
     zusammenfassung |-> game.plot_summary,
     szene |-> LastN(game.narrative_history, 3)]

\* a rotation that restarts with the first agent whenever the party is in
\* the cave
rotate_by_location(game) ==
    LET eligible == SelectSeq(game.agents, LAMBDA a : a.is_active)
        actives == IF Len(eligible) = 0 THEN game.agents ELSE eligible
    IN  IF Len(actives) = 0
        THEN [raised |-> TRUE, actor |-> NoAgent]
        ELSE [raised |-> FALSE,
              actor |-> IF game.state.location = "Hoehle"
                        THEN actives[1]
                        ELSE actives[(game.turn_count % Len(actives)) + 1]]

\* rotate_active_actor that hands back a placeholder agent for an empty roster
rotate_with_placeholder(game) ==
    LET eligible == SelectSeq(game.agents, LAMBDA a : a.is_active)
        actives == IF Len(eligible) = 0 THEN game.agents ELSE eligible
    IN  IF Len(actives) = 0
        THEN [raised |-> FALSE, actor |-> NoAgent]
        ELSE [raised |-> FALSE,
              actor |-> actives[(game.turn_count % Len(actives)) + 1]]

\* rotate_active_actor without the fallback to the whole roster
rotate_without_fallback(game) ==
    LET actives == SelectSeq(game.agents, LAMBDA a : a.is_active)
    IN  IF Len(actives) = 0
        THEN [raised |-> TRUE, actor |-> NoAgent]
        ELSE [raised |-> FALSE,
              actor |-> actives[(game.turn_count % Len(actives)) + 1]]

\* a fallback that always hands the turn to the first agent of the roster
rotate_fallback_first(game) ==
    LET eligible == SelectSeq(game.agents, LAMBDA a : a.is_active)
    IN  IF Len(game.agents) = 0
        THEN [raised |-> TRUE, actor |-> NoAgent]
        ELSE [raised |-> FALSE,
              actor |-> IF Len(eligible) = 0
                        THEN game.agents[1]
                        ELSE eligible[(game.turn_count % Len(eligible)) + 1]]

\* GameSession.rotate_active_actor: the agent returned, or raised = TRUE for
\* IndexError("No agents available in game session.")
rotate_active_actor(game) ==
    LET eligible == SelectSeq(game.agents, LAMBDA a : a.is_active)
        actives == IF Len(eligible) = 0 THEN game.agents ELSE eligible
    IN  IF Len(actives) = 0
        THEN [raised |-> TRUE, actor |-> NoAgent]
        ELSE [raised |-> FALSE,
              actor |-> actives[(game.turn_count % Len(actives)) + 1]]

-----------------------------------------------------------------------------
(* Inputs and capability outcomes the model draws from *)

Scenarios == {"Raubzug in der Wolkenstadt"}

\* TurnRequest.fate_intervention (default "")
Interventions == {"", "Ein Sturm zieht auf"}

AgentDict(name, role) ==
    [name |-> name, role |-> role, description |-> "d", personality |-> "p"]

\* Cast documents the structured call of create_game may be answered with
Cast3 ==
    [agents |-> <<AgentDict("A", "Protagonist"), AgentDict("B", "Protagonist"),
                  AgentDict("C", "Protagonist")>>,
     visual_style |-> "Noir", starting_location |-> "Hafen"]
CastMix ==
    [agents |-> <<AgentDict("A", "Protagonist"), AgentDict("M", "Mentor"),
                  AgentDict("B", "Protagonist")>>,
     starting_location |-> "Hafen"]
CastNoProtagonist ==
    [agents |-> <<AgentDict("M", "Mentor"), AgentDict("N", "Antagonist")>>,
     visual_style |-> "Noir"]
CastSolo ==
    [agents |-> <<AgentDict("A", "Protagonist")>>,
     visual_style |-> "Noir", starting_location |-> None_]
CastEmpty ==
    [agents |-> <<>>, visual_style |-> "Noir", starting_location |-> "Hafen"]
CastNoRole ==
    [agents |-> <<[name |-> "A", description |-> "d", personality |-> "p"]>>,
     visual_style |-> "Noir", starting_location |-> "Hafen"]

\* a cast in which the provider used one name for two characters
CastTwins ==
    [agents |-> <<AgentDict("A", "Protagonist"), AgentDict("A", "Mentor")>>,
     visual_style |-> "Noir", starting_location |-> "Hafen"]

CastDocs == {Cast3, CastMix, CastNoProtagonist, CastSolo, CastEmpty, CastNoRole}

\* State deltas the structured call of UPDATE STATE may be answered with:
\* a field of the delta is a text, an empty text, null, or (in the empty delta
\* call_llm returns on failure) absent
GmMove ==
    [new_location |-> "Hoehle", inventory_changes |-> <<"+Fackel">>,
     quest_update |-> None_, success |-> TRUE]
GmQuest ==
    [new_location |-> "", inventory_changes |-> <<>>,
     quest_update |-> "Finde den Schatz", success |-> FALSE]
GmDocs == {GmMove, GmQuest}

JsonOutcomes(docs) ==
    {Raised, Answer(Garbage)} \cup {Answer(Document(d)) : d \in docs}
TextOutcomes(texts) == {Raised} \cup {Answer(t) : t \in texts}

CastOutcomes == JsonOutcomes(CastDocs)
\* SpecOverlap draws from fewer casts and interventions
OverlapCastOutcomes ==
    {Raised, Answer(Document(CastMix)), Answer(Document(CastNoRole))}
OverlapInterventions == {""}
ActOutcomes == TextOutcomes({"Aktion"})
ReactOutcomes == TextOutcomes({"Reaktion", "PASS", "Niemand, also PASS."})
GmOutcomes == JsonOutcomes(GmDocs)
NarrateOutcomes == TextOutcomes({"Prosa"})
ArtOutcomes == TextOutcomes({"a scene"})
ImageOutcomes == TextOutcomes({"url1"})
SummaryOutcomes == TextOutcomes({"Kurzfassung"})

-----------------------------------------------------------------------------
(* Request slots *)

NoCall == [stage |-> "none"]

IdleReq ==
    [kind |-> "none", pc |-> "idle", session_id |-> UnknownId,
     game |-> UnknownId,
     scenario |-> "", user_intervention |-> "",
     current_actor |-> NoAgent, actor_raw_action |-> "",
     reaction_raw |-> "", reaction_text |-> "",
     data |-> EmptyDict, session |-> GameSession(UnknownId, "", <<>>, ""),
     gm_data |-> EmptyDict, final_prose |-> "",
     prompt |-> "",
     call |-> NoCall, calls |-> <<>>, failed |-> {}, ret |-> ""]

\* the request is inside its endpoint handler
Running(q) == req[q].pc \notin {"idle", "pending"}

\* a request takes the lowest free slot (the slots are interchangeable)
FreeSlot(r) ==
    /\ req[r].pc = "idle"
    /\ \A q \in Reqs : q < r => req[q].pc # "idle"

\* the frame blocks in a generation call of the named stage
Issue(me, stage, arguments) ==
    [me EXCEPT !.pc = stage,
               !.call = [stage |-> stage, arguments |-> arguments],
               !.calls = Append(@, stage)]

\* a capability that makes a second attempt when the first one failed (and
\* fails again)
Back_after_retry(me, failed, dropped) ==
    [me EXCEPT !.call = NoCall,
               !.calls = IF failed THEN Append(@, me.pc) ELSE @,
               !.failed = (IF failed THEN @ \cup {me.pc} ELSE @) \ dropped]

\* the blocking call of the frame has come back; failed tells that the
\* capability took its except branch; the results of the stages in dropped are
\* no longer read
Back(me, failed, dropped) ==
    [me EXCEPT !.call = NoCall,
               !.failed = (IF failed THEN @ \cup {me.pc} ELSE @) \ dropped]

\* the engine function returns ret (or raises) to the endpoint
Return(me, ret) == [me EXCEPT !.pc = "returned", !.call = NoCall, !.ret = ret]

RemoveFromQueue(q, r) == SelectSeq(q, LAMBDA x : x # r)

RECURSIVE SumTurns(_)
SumTurns(S) ==
    IF S = {} THEN 0
    ELSE LET s == CHOOSE x \in S : TRUE
         IN  GAMES[s].turn_count + SumTurns(S \ {s})

\* process_turn calls admitted so far (started, or waiting to start)
TurnsAdmitted ==
    SumTurns(DOMAIN GAMES)
    + Cardinality({q \in Reqs : req[q].kind = "turn" /\ req[q].pc = "pending"})

\* sessions registered or possibly about to be
SessionsAdmitted ==
    Cardinality(DOMAIN GAMES)
    + Cardinality({q \in Reqs : req[q].kind = "create" /\ req[q].pc # "returned"})

\* str(uuid.uuid4()): an identifier not handed out before
uuid4 == CHOOSE id \in SessionIds : id \notin DOMAIN GAMES

-----------------------------------------------------------------------------
(* Scheduling of the endpoint handlers (routers/story.py) *)

\* the handlers declared with "def": run in the thread pool, each started as
\* soon as its request is read
ThreadPoolGrants(r) == r \in {queue[i] : i \in 1 .. Len(queue)}

\* start_game_endpoint and play_turn_endpoint are coroutines ("async def") that
\* call the synchronous engine without awaiting anything: the event loop runs
\* one handler from its start to its response before it starts the next, and
\* starts them in the order the requests became ready.
LoopGrants(r) ==
    /\ queue # <<>>
    /\ r = Head(queue)
    /\ \A q \in Reqs : ~Running(q)

\* process_turn and create_game called from handlers that may overlap at
\* every blocking generation call (threads, or awaited calls)
OverlapGrants(r) == r \in Range(queue)

-----------------------------------------------------------------------------
(* Pure steps of GameManager (game_engine.py) *)

\* create_game, after call_llm returned data: the session built, or raised = TRUE
\* for an exception of the try block (KeyError / TypeError of Agent(**a, ...))
build_session(data, scenario, session_id) ==
    LET cast == Get(data, "agents", <<>>)
    IN  IF \E i \in 1 .. Len(cast) : DOMAIN cast[i] # AgentKeys
        THEN [raised |-> TRUE]
        ELSE LET agents ==
                     [i \in 1 .. Len(cast) |->
                         Agent(cast[i], cast[i].role = "Protagonist")]
                 session ==
                     GameSession(session_id, scenario, agents,
                                 Get(data, "visual_style", "Cinematic"))
             IN  [raised |-> FALSE,
                  session |->
                      [session EXCEPT !.state.location =
                          Get(data, "starting_location", "Unknown")]]

\* a lookup that hands back the session registered last, whatever the key
lookup_latest(games, session_id) ==
    IF session_id \in DOMAIN games
    THEN [found |-> TRUE,
          game |-> CHOOSE id \in DOMAIN games :
                       \A other \in DOMAIN games : other <= id]
    ELSE [found |-> FALSE, game |-> UnknownId]

\* a lookup that falls back to a registered session when the key is missing
lookup_with_fallback(games, session_id) ==
    IF session_id \in DOMAIN games
    THEN [found |-> TRUE, game |-> session_id]
    ELSE IF DOMAIN games # {}
         THEN [found |-> TRUE, game |-> CHOOSE id \in DOMAIN games : TRUE]
         ELSE [found |-> FALSE, game |-> UnknownId]

\* create_game lines 240-250: the agents and the GameSession object, or
\* raised = TRUE for an exception of Agent(**a, ...)
construct_session(data, scenario, session_id) ==
    LET cast == Get(data, "agents", <<>>)
    IN  IF \E i \in 1 .. Len(cast) : DOMAIN cast[i] # AgentKeys
        THEN [raised |-> TRUE]
        ELSE [raised |-> FALSE,
              session |->
                  GameSession(session_id, scenario,
                              [i \in 1 .. Len(cast) |->
                                  Agent(cast[i], cast[i].role = "Protagonist")],
                              Get(data, "visual_style", "Cinematic"))]

\* create_game line 251
set_starting_location(session, data) ==
    [session EXCEPT !.state.location = Get(data, "starting_location", "Unknown")]

\* an insertion that rebuilds the registry from the new session alone
register_alone(games, session) ==
    [id \in {session.session_id} |-> session]

\* an insertion under a running number instead of the session's identifier
register_by_count(games, session) ==
    LET key == Cardinality(DOMAIN games) + 1
    IN  [id \in DOMAIN games \cup {key} |->
            IF id = key THEN session ELSE games[id]]

\* create_game line 253: GAMES[session.session_id] = session
register(games, session) ==
    [id \in DOMAIN games \cup {session.session_id} |->
        IF id = session.session_id THEN session ELSE games[id]]

\* GAMES.get(session_id): found = FALSE stands for None
lookup(games, session_id) ==
    IF session_id \in DOMAIN games
    THEN [found |-> TRUE, game |-> session_id]
    ELSE [found |-> FALSE, game |-> UnknownId]

\* an increment that also marks the agent whose turn it is as the only
\* eligible one
begin_turn_marking_actor(game) ==
    LET next == [game EXCEPT !.turn_count = @ + 1]
        actor == rotate_active_actor(next).actor
    IN  [next EXCEPT !.agents =
            [i \in 1 .. Len(game.agents) |->
                [game.agents[i] EXCEPT
                    !.is_active = (game.agents[i].name = actor.name)]]]

\* an increment that is left out when the roster is empty
begin_turn_if_cast(game) ==
    IF Len(game.agents) = 0 THEN game ELSE [game EXCEPT !.turn_count = @ + 1]

\* game.turn_count += 1 (line 286)
begin_turn(game) == [game EXCEPT !.turn_count = @ + 1]

\* an append that skips empty prose
append_nonempty_prose(narrative_history, final_prose) ==
    IF final_prose = "" THEN narrative_history
    ELSE Append(narrative_history, final_prose)

\* an append executed twice
append_prose_twice(narrative_history, final_prose) ==
    Append(Append(narrative_history, final_prose), final_prose)

\* the new prose put in front of the older blocks
append_prose_in_front(narrative_history, final_prose) ==
    <<final_prose>> \o narrative_history

\* game.narrative_history.append(final_prose)
append_prose(narrative_history, final_prose) ==
    Append(narrative_history, final_prose)

\* reaction_text after the REACT call returned reaction_raw
reaction_of(reaction_raw) ==
    IF ~ContainsPASS(reaction_raw) THEN reaction_raw ELSE ""

\* a delta applied field by field whenever the field is present and not null
apply_non_null(state, gm_data) ==
    LET s1 == IF Get(gm_data, "new_location", None_) # None_
              THEN [state EXCEPT !.location = gm_data["new_location"]]
              ELSE state
    IN  IF Get(gm_data, "quest_update", None_) # None_
        THEN [s1 EXCEPT !.current_quest = gm_data["quest_update"]]
        ELSE s1

\* a delta applied together with its inventory_changes
apply_with_inventory(state, gm_data) ==
    LET s1 == IF Truthy(Get(gm_data, "new_location", None_))
              THEN [state EXCEPT !.location = gm_data["new_location"]]
              ELSE state
        s2 == IF Truthy(Get(gm_data, "quest_update", None_))
              THEN [s1 EXCEPT !.current_quest = gm_data["quest_update"]]
              ELSE s1
    IN  [s2 EXCEPT !.inventory = @ \o Get(gm_data, "inventory_changes", <<>>)]

\* "State anwenden": location and quest taken from gm_data when truthy
apply_gm_data(state, gm_data) ==
    LET s1 == IF Truthy(Get(gm_data, "new_location", None_))
              THEN [state EXCEPT !.location = gm_data["new_location"]]
              ELSE state
    IN  IF Truthy(Get(gm_data, "quest_update", None_))
        THEN [s1 EXCEPT !.current_quest = gm_data["quest_update"]]
        ELSE s1

\* the cadence counted from the first turn (turns 1, 4, 7, ...)
summary_due_from_first(game) == (game.turn_count - 1) % 3 = 0

\* if game.turn_count % 3 == 0
summary_due(game) == game.turn_count % 3 = 0

\* a compactor that keeps the previous summary when the capability yields
\* nothing
update_summary_keeping(game, result) ==
    IF result = "" THEN game ELSE [game EXCEPT !.plot_summary = result]

\* _update_summary line 391: game.plot_summary = call_llm(sys_sum, full_text)
update_summary(game, result) == [game EXCEPT !.plot_summary = result]

\* the prompts of the stages, by the values interpolated into them
ActPrompt(game, actor, context, fate) ==
    [name |-> actor.name, description |-> actor.description,
     personality |-> actor.personality, ziel |-> game.state.current_quest,
     context |-> context, fate |-> IF Truthy(fate) THEN fate ELSE "Nichts"]

ReactPrompt(actor, action, passive_agents) ==
    [actor |-> actor.name, aktion |-> action,
     anwesende |-> [i \in 1 .. Len(passive_agents) |-> passive_agents[i].name]]

GmPrompt(game, action, fate) ==
    [old_state |-> to_string(game.state), action |-> action, fate |-> fate]

NarratorPrompt(game, actor, action, reaction_text, gm_data) ==
    [stil |-> game.visual_style,
     letzter_absatz |->
         IF Len(game.narrative_history) > 0
         THEN game.narrative_history[Len(game.narrative_history)]
         ELSE "Start.",
     actor |-> actor.name, aktion |-> action, reaktionen |-> reaction_text,
     ergebnis |-> IF Get(gm_data, "success", FALSE) = TRUE
                  THEN "Erfolg" ELSE "Fehlschlag",
     ziel |-> game.state.current_quest]

ArtPrompt(game, final_prose) ==
    [style |-> game.visual_style, text |-> final_prose]

-----------------------------------------------------------------------------
(* Initial state: no session, no request *)

Init ==
    /\ GAMES = [id \in {} |-> GameSession(id, "", <<>>, "")]
    /\ req = [r \in Reqs |-> IdleReq]
    /\ queue = <<>>
    /\ trace = [id \in AllSessionIds |->
                    [actors |-> <<>>, compactions |-> 0, returned |-> 0,
                     last_url |-> "", last_result |-> ""]]

-----------------------------------------------------------------------------
(* Requests arriving *)

\* POST /story/start
SubmitStart(r, max_sessions) ==
    /\ FreeSlot(r)
    /\ SessionsAdmitted < max_sessions
    /\ \E scenario \in Scenarios :
           req' = [req EXCEPT ![r] =
                      [IdleReq EXCEPT !.kind = "create", !.pc = "pending",
                                      !.scenario = scenario]]
    /\ queue' = Append(queue, r)
    /\ UNCHANGED <<GAMES, trace>>

\* POST /story/turn naming one of the identifiers ids
SubmitTurnFor(r, max_turns, fates, ids) ==
    /\ FreeSlot(r)
    /\ TurnsAdmitted < max_turns
    /\ \E session_id \in ids, fate \in fates :
           req' = [req EXCEPT ![r] =
                      [IdleReq EXCEPT !.kind = "turn", !.pc = "pending",
                                      !.session_id = session_id,
                                      !.user_intervention = fate]]
    /\ queue' = Append(queue, r)
    /\ UNCHANGED <<GAMES, trace>>

\* POST /story/turn
SubmitTurn(r, max_turns, fates) ==
    /\ FreeSlot(r)
    /\ TurnsAdmitted < max_turns
    /\ \E session_id \in SessionIds \cup {UnknownId}, fate \in fates :
           req' = [req EXCEPT ![r] =
                      [IdleReq EXCEPT !.kind = "turn", !.pc = "pending",
                                      !.session_id = session_id,
                                      !.user_intervention = fate]]
    /\ queue' = Append(queue, r)
    /\ UNCHANGED <<GAMES, trace>>

-----------------------------------------------------------------------------
(* GameManager.create_game *)

\* lines 228-239: up to the call of call_llm
CreateEnter(r, granted) ==
    /\ req[r].pc = "pending"
    /\ req[r].kind = "create"
    /\ granted
    /\ req' = [req EXCEPT ![r] = Issue(@, "cast", [scenario |-> @.scenario])]
    /\ queue' = RemoveFromQueue(queue, r)
    /\ UNCHANGED <<GAMES, trace>>

\* lines 239-257: from the return of call_llm to the return of create_game
CreateReturn(r, outcomes) ==
    /\ req[r].pc = "cast"
    /\ \E o \in outcomes :
        LET data == call_llm(o, TRUE)
            me == [Back(req[r], LlmFailed(o, TRUE), {}) EXCEPT !.data = data]
            built == build_session(data, me.scenario, uuid4)
        IN  IF built.raised
            THEN /\ req' = [req EXCEPT ![r] = Return(me, None_)]
                 /\ UNCHANGED GAMES
            ELSE /\ GAMES' =
                        [id \in DOMAIN GAMES \cup {built.session.session_id} |->
                            IF id = built.session.session_id
                            THEN built.session ELSE GAMES[id]]
                 /\ req' = [req EXCEPT ![r] =
                               Return([me EXCEPT !.game =
                                          built.session.session_id], "session")]
    /\ UNCHANGED <<queue, trace>>

\* create_game statement by statement, for callers that run it in threads.
\* str(uuid.uuid4()): an identifier no session, registered or under
\* construction, carries
fresh_uuid4 ==
    CHOOSE id \in AllSessionIds :
        /\ id \notin DOMAIN GAMES
        /\ \A q \in Reqs : req[q].session.session_id # id

\* lines 239-250: call_llm returned, agents and session object constructed
CreateConstruct(r, outcomes) ==
    /\ req[r].pc = "cast"
    /\ \E o \in outcomes :
        LET data == call_llm(o, TRUE)
            me == [Back(req[r], LlmFailed(o, TRUE), {}) EXCEPT !.data = data]
            built == construct_session(data, me.scenario, fresh_uuid4)
        IN  req' = [req EXCEPT ![r] =
                IF built.raised
                THEN Return(me, None_)
                ELSE [me EXCEPT !.pc = "constructed",
                                !.session = built.session]]
    /\ UNCHANGED <<GAMES, queue, trace>>

\* line 251
CreateLocate(r) ==
    /\ req[r].pc = "constructed"
    /\ req' = [req EXCEPT ![r] =
                  [req[r] EXCEPT
                      !.pc = "located",
                      !.session = set_starting_location(req[r].session,
                                                        req[r].data)]]
    /\ UNCHANGED <<GAMES, queue, trace>>

\* lines 253-254
CreateRegister(r) ==
    /\ req[r].pc = "located"
    /\ GAMES' = register(GAMES, req[r].session)
    /\ req' = [req EXCEPT ![r] =
                  Return([req[r] EXCEPT !.game = req[r].session.session_id],
                         "session")]
    /\ UNCHANGED <<queue, trace>>

-----------------------------------------------------------------------------
(* GameManager.process_turn *)

\* lines 282-299: lookup, turn_count += 1, rotation, context, ACT call issued
TurnEnter(r, granted) ==
    /\ req[r].pc = "pending"
    /\ req[r].kind = "turn"
    /\ granted
    /\ queue' = RemoveFromQueue(queue, r)
    /\ LET me == req[r]
           found == lookup(GAMES, me.session_id)
           sid == found.game
       IN  IF ~found.found
           THEN /\ req' = [req EXCEPT ![r] = Return(me, None_)]
                /\ UNCHANGED <<GAMES, trace>>
           ELSE LET game == begin_turn(GAMES[sid])
                    rotated == rotate_active_actor(game)
                    context == get_context_for_llm(game)
                IN  /\ GAMES' = [GAMES EXCEPT ![sid] = game]
                    /\ IF rotated.raised
                       THEN /\ req' = [req EXCEPT ![r] =
                                  Return([me EXCEPT !.game = sid], "IndexError")]
                            /\ UNCHANGED trace
                       ELSE /\ req' = [req EXCEPT ![r] =
                                  Issue([me EXCEPT !.game = sid,
                                                   !.current_actor = rotated.actor],
                                        "act",
                                        ActPrompt(game, rotated.actor, context,
                                                  me.user_intervention))]
                            /\ trace' = [trace EXCEPT ![sid].actors =
                                            Append(@, rotated.actor.name)]

\* lines 299-310 / 325: ACT returned; REACT issued if there are passive agents,
\* otherwise UPDATE STATE issued
ActReturn(r) ==
    /\ req[r].pc = "act"
    /\ \E o \in ActOutcomes :
        LET actor_raw_action == call_llm(o, FALSE)
            me == [Back(req[r], LlmFailed(o, FALSE), {}) EXCEPT
                      !.actor_raw_action = actor_raw_action,
                      !.reaction_text = ""]
            game == GAMES[me.game]
            passive_agents ==
                SelectSeq(game.agents,
                          LAMBDA a : a.name # me.current_actor.name)
        IN  req' = [req EXCEPT ![r] =
                IF Len(passive_agents) > 0
                THEN Issue(me, "react",
                           ReactPrompt(me.current_actor, actor_raw_action,
                                       passive_agents))
                ELSE Issue(me, "gm",
                           GmPrompt(game, actor_raw_action, me.user_intervention))]
    /\ UNCHANGED <<GAMES, queue, trace>>

\* lines 310-325: REACT returned, UPDATE STATE issued
ReactReturn(r) ==
    /\ req[r].pc = "react"
    /\ \E o \in ReactOutcomes :
        LET reaction_raw == call_llm(o, FALSE)
            me == [Back(req[r], LlmFailed(o, FALSE), {}) EXCEPT
                      !.reaction_raw = reaction_raw,
                      !.reaction_text = reaction_of(reaction_raw)]
            game == GAMES[me.game]
        IN  req' = [req EXCEPT ![r] =
                Issue(me, "gm",
                      GmPrompt(game, me.actor_raw_action, me.user_intervention))]
    /\ UNCHANGED <<GAMES, queue, trace>>

\* lines 325-355: UPDATE STATE returned and applied, NARRATE issued
GmReturn(r) ==
    /\ req[r].pc = "gm"
    /\ \E o \in GmOutcomes :
        LET gm_data == call_llm(o, TRUE)
            me == [Back(req[r], LlmFailed(o, TRUE), {}) EXCEPT
                      !.gm_data = gm_data, !.user_intervention = ""]
            sid == me.game
            game == [GAMES[sid] EXCEPT !.state = apply_gm_data(@, gm_data)]
        IN  /\ GAMES' = [GAMES EXCEPT ![sid] = game]
            /\ req' = [req EXCEPT ![r] =
                   Issue(me, "narrate",
                         NarratorPrompt(game, me.current_actor,
                                        me.actor_raw_action, me.reaction_text,
                                        gm_data))]
    /\ UNCHANGED <<queue, trace>>

\* lines 355-368: NARRATE returned, prose appended, art-director call issued
NarrateReturn(r) ==
    /\ req[r].pc = "narrate"
    /\ \E o \in NarrateOutcomes :
        LET final_prose == call_llm(o, FALSE)
            me == [Back(req[r], LlmFailed(o, FALSE), {"act", "gm"}) EXCEPT
                      !.final_prose = final_prose, !.actor_raw_action = "",
                      !.gm_data = EmptyDict]
            sid == me.game
            game == [GAMES[sid] EXCEPT
                        !.narrative_history = append_prose(@, final_prose)]
        IN  /\ GAMES' = [GAMES EXCEPT ![sid] = game]
            /\ req' = [req EXCEPT ![r] =
                   Issue(me, "art", ArtPrompt(game, final_prose))]
    /\ UNCHANGED <<queue, trace>>

\* lines 368-369: art-director call returned, generate_image_url issued
ArtReturn(r) ==
    /\ req[r].pc = "art"
    /\ \E o \in ArtOutcomes :
        LET prompt == call_llm(o, FALSE)
            me == [Back(req[r], LlmFailed(o, FALSE), {"narrate"}) EXCEPT
                      !.prompt = prompt, !.final_prose = ""]
        IN  req' = [req EXCEPT ![r] = Issue(me, "image", [prompt |-> prompt])]
    /\ UNCHANGED <<GAMES, queue, trace>>

\* lines 369-375 and 389-391: image URL stored; if the summary is due,
\* _update_summary is entered and its call issued, otherwise process_turn returns
ImageReturn(r) ==
    /\ req[r].pc = "image"
    /\ \E o \in ImageOutcomes :
        LET me == [Back(req[r], o.status = "error", {"art"}) EXCEPT
                      !.prompt = ""]
            sid == me.game
            game == [GAMES[sid] EXCEPT !.last_image_url = generate_image_url(o)]
            last_url == IF o.status = "error" THEN trace[sid].last_url
                        ELSE o.content
            last_result == IF o.status = "error" THEN "" ELSE o.content
        IN  /\ GAMES' = [GAMES EXCEPT ![sid] = game]
            /\ IF summary_due(game)
               THEN /\ req' = [req EXCEPT ![r] =
                          Issue(me, "summary",
                                [full_text |-> game.narrative_history])]
                    /\ trace' = [trace EXCEPT ![sid].compactions = @ + 1,
                                              ![sid].last_url = last_url,
                                              ![sid].last_result = last_result]
               ELSE /\ req' = [req EXCEPT ![r] = Return(me, "session")]
                    /\ trace' = [trace EXCEPT ![sid].returned = @ + 1,
                                              ![sid].last_url = last_url,
                                              ![sid].last_result = last_result]
    /\ UNCHANGED queue

\* line 391 and 375: summary stored, process_turn returns the session
SummaryReturn(r) ==
    /\ req[r].pc = "summary"
    /\ \E o \in SummaryOutcomes :
        LET me == Back(req[r], LlmFailed(o, FALSE), {})
            sid == me.game
        IN  /\ GAMES' = [GAMES EXCEPT
                            ![sid] = update_summary(@, call_llm(o, FALSE))]
            /\ req' = [req EXCEPT ![r] = Return(me, "session")]
            /\ trace' = [trace EXCEPT ![sid].returned = @ + 1]
    /\ UNCHANGED queue

-----------------------------------------------------------------------------
(* The endpoint answers (story.py 93-97, 123-128) and the handler ends *)

\* build_response (story.py 26-68): the GameStateResponse for a session
build_response(game) ==
    LET active == SelectSeq(game.agents, LAMBDA a : a.is_active)
    IN  [session_id |-> game.session_id,
         turn_count |-> game.turn_count,
         last_narrative |->
             IF Len(game.narrative_history) > 0
             THEN game.narrative_history[Len(game.narrative_history)]
             ELSE game.plot_summary,
         image_url |-> game.last_image_url,
         active_actor_name |->
             IF Len(active) > 0 THEN active[1].name ELSE "Unbekannt",
         current_location |-> game.state.location,
         current_quest |-> game.state.current_quest,
         inventory |-> game.state.inventory,
         history |-> LastN(game.narrative_history, 5)]

Respond(r) ==
    /\ req[r].pc = "returned"
    /\ req' = [req EXCEPT ![r] = IdleReq]
    /\ UNCHANGED <<GAMES, queue, trace>>

-----------------------------------------------------------------------------
(* Specifications *)

Pipeline(r) ==
    \/ ActReturn(r)
    \/ ReactReturn(r)
    \/ GmReturn(r)
    \/ NarrateReturn(r)
    \/ ArtReturn(r)
    \/ ImageReturn(r)
    \/ SummaryReturn(r)
    \/ Respond(r)

\* the service as deployed: handlers run one at a time on the event loop
Next ==
    \E r \in Reqs :
        \/ SubmitStart(r, MaxSessions)
        \/ SubmitTurn(r, MaxTurns, Interventions)
        \/ CreateEnter(r, LoopGrants(r))
        \/ CreateReturn(r, CastOutcomes)
        \/ TurnEnter(r, LoopGrants(r))
        \/ Pipeline(r)

Spec == Init /\ [][Next]_vars

\* the engine called by handlers that overlap at the generation calls
NextOverlap ==
    \E r \in Reqs :
        \/ SubmitStart(r, MaxOverlapSessions)
        \/ SubmitTurn(r, MaxOverlapTurns, OverlapInterventions)
        \/ CreateEnter(r, OverlapGrants(r))
        \/ CreateReturn(r, OverlapCastOutcomes)
        \/ TurnEnter(r, OverlapGrants(r))
        \/ Pipeline(r)

SpecOverlap == Init /\ [][NextOverlap]_vars

\* a request's own steps, from the start of its handler to its response
Handler(r) ==
    \/ CreateEnter(r, LoopGrants(r))
    \/ CreateReturn(r, CastOutcomes)
    \/ TurnEnter(r, LoopGrants(r))
    \/ Pipeline(r)

\* the service as deployed, where the event loop runs every handler that is
\* ready and every blocking generation call comes back (answer, error or the
\* client's timeout)
SpecFair == Spec /\ \A r \in Reqs : WF_vars(Handler(r))

\* the engine called from threads: create_game may be preempted between
\* its statements, process_turn at its generation calls; two sessions
RegistryCastOutcomes ==
    {Answer(Document(CastMix)), Answer(Document(CastSolo)),
     Answer(Document(CastNoRole))}

NextRegistry ==
    \E r \in Reqs :
        \/ SubmitStart(r, MaxRegistrySessions)
        \/ SubmitTurnFor(r, MaxRegistryTurns, OverlapInterventions,
                         AllSessionIds)
        \/ CreateEnter(r, OverlapGrants(r))
        \/ CreateConstruct(r, RegistryCastOutcomes)
        \/ CreateLocate(r)
        \/ CreateRegister(r)
        \/ TurnEnter(r, OverlapGrants(r))
        \/ ActReturn(r)
        \/ ReactReturn(r)
        \/ GmReturn(r)
        \/ NarrateReturn(r)
        \/ ArtReturn(r)
        \/ ImageReturn(r)
        \/ Respond(r)

SpecRegistry == Init /\ [][NextRegistry]_vars

\* A session that has already played h turns, h = 0 .. MaxHistory, each of
\* which appended its own paragraph, and the turns played on it from there
\* (handlers one at a time).
Chronicle ==
    [i \in 1 .. MaxHistory |->
        CASE i = 1 -> "Absatz 1" [] i = 2 -> "Absatz 2" [] i = 3 -> "Absatz 3"
          [] i = 4 -> "Absatz 4" [] i = 5 -> "Absatz 5" [] OTHER -> "Absatz"]

PlayedSession(h) ==
    LET new == build_session(CastMix, "Raubzug in der Wolkenstadt", 1).session
    IN  [new EXCEPT
            !.turn_count = h,
            !.narrative_history = SubSeq(Chronicle, 1, h),
            !.plot_summary = IF h >= 3 THEN "Kurzfassung" ELSE @,
            !.state.location = IF h >= 1 THEN "Hoehle" ELSE @,
            !.last_image_url = IF h >= 1 THEN "url1" ELSE @]

InitContext ==
    \E h \in 0 .. MaxHistory :
        /\ GAMES = [id \in {1} |-> PlayedSession(h)]
        /\ req = [r \in Reqs |-> IdleReq]
        /\ queue = <<>>
        /\ trace = [id \in AllSessionIds |->
                       IF id = 1
                       THEN [actors |->
                                [k \in 1 .. h |->
                                    rotate_active_actor(PlayedSession(k)).actor.name],
                             compactions |-> h \div 3, returned |-> h,
                             last_url |-> PlayedSession(h).last_image_url,
                             last_result |-> PlayedSession(h).last_image_url]
                       ELSE [actors |-> <<>>, compactions |-> 0, returned |-> 0,
                             last_url |-> "", last_result |-> ""]]

\* the paragraphs of the drawn history (the turns played before Init)
DrawnTurns ==
    Cardinality({i \in 1 .. Len(GAMES[1].narrative_history) :
                    GAMES[1].narrative_history[i] \in Range(Chronicle)})

NextContext ==
    \E r \in Reqs :
        \/ SubmitTurn(r, DrawnTurns + MaxContextTurns, Interventions)
        \/ TurnEnter(r, LoopGrants(r))
        \/ Pipeline(r)

SpecContext == InitContext /\ [][NextContext]_vars

\* A session as create_game registers it for one of a few casts, among them
\* one with a repeated name, and the turns played on it (handlers one at a
\* time).
DrawnCasts == {CastMix, CastSolo, CastTwins}

InitCast ==
    \E cast \in DrawnCasts :
        /\ GAMES = [id \in {1} |->
                       build_session(cast, "Raubzug in der Wolkenstadt",
                                     id).session]
        /\ req = [r \in Reqs |-> IdleReq]
        /\ queue = <<>>
        /\ trace = [id \in AllSessionIds |->
                       [actors |-> <<>>, compactions |-> 0, returned |-> 0,
                        last_url |-> "", last_result |-> ""]]

NextCast ==
    \E r \in Reqs :
        \/ SubmitTurn(r, MaxCastTurns, OverlapInterventions)
        \/ TurnEnter(r, LoopGrants(r))
        \/ Pipeline(r)

SpecCast == InitCast /\ [][NextCast]_vars

-----------------------------------------------------------------------------
(* Vocabulary of the properties *)

TurnStages == {"act", "react", "gm", "narrate", "art", "image", "summary"}

\* request r is inside process_turn, blocked in a generation call
InTurn(r) == req[r].kind = "turn" /\ req[r].pc \in TurnStages

\* no process_turn call is in progress on session sid
Quiet(sid) == \A r \in Reqs : ~(InTurn(r) /\ req[r].game = sid)

\* process_turn has returned to request r
TurnReturned(r) == req[r].kind = "turn" /\ req[r].pc = "returned"

\* the agents marked is_active, in roster order
Eligible(game) == SelectSeq(game.agents, LAMBDA a : a.is_active)

HasAgents(sid) == sid \in DOMAIN GAMES /\ Len(GAMES[sid].agents) >= 1

Last(s) == s[Len(s)]

-----------------------------------------------------------------------------
(* C1 *)

\* C1: for a session whose eligible sequence E has n >= 1 members, the actor
\* process_turn chose on the k-th turn is E[(k-1) mod n] (0-indexed), so that
\* E = [A, B] gives A, B, A.
C1_RotationStartsAtFirst ==
    \A sid \in DOMAIN GAMES :
        LET E == Eligible(GAMES[sid])
            n == Len(E)
        IN  n >= 1 =>
                \A k \in 1 .. Len(trace[sid].actors) :
                    trace[sid].actors[k] = E[((k - 1) % n) + 1].name

-----------------------------------------------------------------------------
(* C2 *)

\* C2: when k process_turn calls on a registered session with a non-empty
\* roster have returned, run one after another, and none is in progress,
\* narrative_history has k entries and turn_count is k, whatever the
\* capabilities returned.
C2_HistoryAppend ==
    \A sid \in DOMAIN GAMES :
        (HasAgents(sid) /\ Quiet(sid)) =>
            /\ Len(GAMES[sid].narrative_history) = trace[sid].returned
            /\ GAMES[sid].turn_count = trace[sid].returned

\* three turns have returned and one of them appended empty prose
C2_Witness ==
    \E sid \in DOMAIN GAMES :
        /\ HasAgents(sid) /\ Quiet(sid)
        /\ trace[sid].returned = 3
        /\ Len(GAMES[sid].narrative_history) = 3
        /\ \E i \in 1 .. 3 : GAMES[sid].narrative_history[i] = ""
        /\ \E i \in 1 .. 3 : GAMES[sid].narrative_history[i] = "Prosa"

-----------------------------------------------------------------------------
(* C3 *)

\* C3: in every reachable state of every session (mid-turn, after a turn that
\* raised before narration, under interleaved turns) narrative_history has at
\* most turn_count entries.
C3_HistoryBounded ==
    \A sid \in DOMAIN GAMES :
        Len(GAMES[sid].narrative_history) <= GAMES[sid].turn_count

\* two turns of one session interleave: both have incremented turn_count, one
\* has appended its prose and the other has not yet
C3_Witness ==
    \E r, q \in Reqs :
        /\ r # q
        /\ InTurn(r) /\ InTurn(q)
        /\ req[r].game = req[q].game
        /\ req[r].pc \in {"art", "image"}
        /\ req[q].pc \in {"act", "react", "gm", "narrate"}
        /\ GAMES[req[r].game].turn_count = 2
        /\ Len(GAMES[req[r].game].narrative_history) = 1

-----------------------------------------------------------------------------
(* C4 *)

-----------------------------------------------------------------------------
(* C5 *)

\* C5: process_turn called with an identifier that is not registered returns
\* None, makes no generation call, registers nothing (the identifier stays
\* unregistered) and leaves every registered session as it was.
C5_NotFound ==
    [][\A r \in Reqs :
          (/\ req[r].kind = "turn"
           /\ req[r].pc = "pending"
           /\ req[r].session_id \notin DOMAIN GAMES
           /\ req'[r].pc # "pending")
          => (/\ req'[r].pc = "returned"
              /\ req'[r].ret = None_
              /\ req'[r].calls = <<>>
              /\ GAMES' = GAMES
              /\ trace' = trace
              /\ req[r].session_id \notin DOMAIN GAMES')]_vars

\* a turn for an unregistered identifier has returned None while a session
\* that played a turn is registered
C5_Witness ==
    \E r \in Reqs :
        /\ TurnReturned(r)
        /\ req[r].ret = None_
        /\ req[r].session_id \notin DOMAIN GAMES
        /\ req[r].calls = <<>>
        /\ \E sid \in DOMAIN GAMES : GAMES[sid].turn_count >= 1

-----------------------------------------------------------------------------
(* C6 *)

\* the cast call of create frame r was unavailable (call_llm took its except
\* branch: provider error or unparseable JSON) or returned malformed data
CastFailed(r) ==
    \/ "cast" \in req[r].failed
    \/ build_session(req[r].data, req[r].scenario, UnknownId).raised

\* C6: whenever the cast/style call of create_game is unavailable or returns
\* malformed structured data, create_game returns None and registers no
\* session.
C6_CreationFails ==
    \A r \in Reqs :
        (req[r].kind = "create" /\ req[r].pc = "returned" /\ CastFailed(r)) =>
            /\ req[r].ret = None_
            /\ req[r].game \notin DOMAIN GAMES

-----------------------------------------------------------------------------
(* C7 *)

\* C7: every call of create_game and process_turn ends with a session or with
\* the explicit None signal, never by propagating an exception.
C7_NoRawException ==
    \A r \in Reqs :
        req[r].pc = "returned" => req[r].ret \in {"session", None_}

-----------------------------------------------------------------------------
(* C8 *)

-----------------------------------------------------------------------------
(* C9 *)

\* C9: when the REACT call fails, reaction_raw and reaction_text are empty,
\* the NARRATE call is issued with the empty reaction, the art-director and
\* image calls follow, and the turn returns the session with one prose block
\* appended for it and last_image_url overwritten by the image result.
C9_FailSoftReact ==
    \A r \in Reqs :
        (req[r].kind = "turn" /\ "react" \in req[r].failed) =>
            LET me == req[r]
                game == GAMES[me.game]
            IN  /\ me.reaction_raw = ""
                /\ me.reaction_text = ""
                /\ me.pc \in {"gm", "narrate", "art", "image", "summary",
                              "returned"}
                /\ me.pc = "narrate" => me.call.arguments.reaktionen = ""
                /\ me.pc \in {"art", "image", "summary", "returned"} =>
                       /\ "narrate" \in Range(me.calls)
                       /\ Len(game.narrative_history) = game.turn_count
                /\ me.pc = "art" =>
                       Last(game.narrative_history) = me.final_prose
                /\ me.pc \in {"summary", "returned"} =>
                       /\ {"art", "image"} \subseteq Range(me.calls)
                       /\ game.last_image_url =
                              (IF "image" \in me.failed THEN "" ELSE "url1")
                /\ me.pc = "returned" => me.ret = "session"

\* the first turn of a session has returned it: REACT failed, the state
\* delta was applied, the prose was appended and the image URL stored
C9_Witness ==
    \E r \in Reqs :
        /\ TurnReturned(r) /\ req[r].ret = "session"
        /\ req[r].failed = {"react"}
        /\ req[r].calls = <<"act", "react", "gm", "narrate", "art", "image">>
        /\ GAMES[req[r].game].turn_count = 1
        /\ GAMES[req[r].game].state.location = "Hoehle"
        /\ GAMES[req[r].game].narrative_history = <<"Prosa">>
        /\ GAMES[req[r].game].last_image_url = "url1"

-----------------------------------------------------------------------------
(* C10 *)

\* the generation calls of a complete turn of request r
ExpectedCalls(r) ==
    LET game == GAMES[req[r].game]
        others == SelectSeq(game.agents,
                            LAMBDA a : a.name # req[r].current_actor.name)
    IN  <<"act">> \o (IF Len(others) > 0 THEN <<"react">> ELSE <<>>)
        \o <<"gm", "narrate", "art", "image">>
        \o (IF game.turn_count % 3 = 0 THEN <<"summary">> ELSE <<>>)

\* a stage that failed contributed the empty value, and a turn that returned
\* on a session with agents returned the session after every stage ran
C10_Degraded ==
    \A r \in Reqs :
        LET me == req[r]
        IN  (me.kind = "turn" /\ HasAgents(me.game)) =>
                /\ "act" \in me.failed => me.actor_raw_action = ""
                /\ "react" \in me.failed => me.reaction_text = ""
                /\ "gm" \in me.failed => me.gm_data = EmptyDict
                /\ "narrate" \in me.failed =>
                       /\ me.final_prose = ""
                       /\ Last(GAMES[me.game].narrative_history) = ""
                /\ "art" \in me.failed => me.prompt = ""
                /\ "image" \in me.failed => GAMES[me.game].last_image_url = ""
                /\ "summary" \in me.failed => GAMES[me.game].plot_summary = ""
                /\ me.pc = "returned" =>
                       /\ me.ret = "session"
                       /\ me.calls = ExpectedCalls(r)

\* C10: every process_turn requested on a registered session with at least
\* one agent eventually returns the session, whatever the generation calls of
\* its stages yield; a failed stage contributes an empty value and the
\* following stages still run.
C10_TurnCompletes ==
    /\ []C10_Degraded
    /\ \A r \in Reqs :
           (/\ req[r].kind = "turn"
            /\ req[r].pc = "pending"
            /\ HasAgents(req[r].session_id))
           ~> (/\ req[r].kind = "turn"
               /\ req[r].pc = "returned"
               /\ req[r].ret = "session")

\* a turn in which every generation call failed has returned the session
C10_Witness ==
    \E r \in Reqs :
        /\ TurnReturned(r) /\ req[r].ret = "session"
        /\ HasAgents(req[r].game)
        /\ req[r].calls =
               <<"act", "react", "gm", "narrate", "art", "image", "summary">>
        /\ {"react", "image", "summary"} \subseteq req[r].failed
        /\ GAMES[req[r].game].state = [StoryState EXCEPT !.location = "Hafen"]
        /\ \A i \in 1 .. 3 : GAMES[req[r].game].narrative_history[i] = ""
        /\ GAMES[req[r].game].plot_summary = ""

-----------------------------------------------------------------------------
(* C11 *)

Min(a, b) == IF a <= b THEN a ELSE b

\* C11: the context handed to the ACT call of a turn holds exactly the last
\* min(3, h) entries of the session's narrative_history as it is at the call,
\* in order, with the session's current story state and plot_summary.
C11_ContextWindow ==
    \A r \in Reqs :
        (InTurn(r) /\ req[r].pc = "act") =>
            LET game == GAMES[req[r].game]
                history == game.narrative_history
                h == Len(history)
                n == Min(3, h)
                context == req[r].call.arguments.context
            IN  /\ Len(context.szene) = n
                /\ \A i \in 1 .. n : context.szene[i] = history[h - n + i]
                /\ context.status = [Ort |-> game.state.location,
                                     Inventar |-> game.state.inventory,
                                     Ziel |-> game.state.current_quest]
                /\ context.zusammenfassung = game.plot_summary

\* the turn after a drawn history of five paragraphs and one more turn: its
\* context holds paragraphs 4 and 5 and the prose of the turn before
C11_Witness ==
    \E r \in Reqs :
        /\ InTurn(r) /\ req[r].pc = "act"
        /\ Len(GAMES[req[r].game].narrative_history) = 6
        /\ req[r].call.arguments.context.szene =
               <<"Absatz 4", "Absatz 5", "Prosa">>

-----------------------------------------------------------------------------
(* C12 *)

\* the fields of a session the stages of a turn write
StageOutput(game) ==
    [state |-> game.state, narrative_history |-> game.narrative_history,
     plot_summary |-> game.plot_summary, last_image_url |-> game.last_image_url]

\* C12: a process_turn on a registered session with an empty roster ends at
\* once with the IndexError of rotate_active_actor: no actor is chosen, no
\* generation call is made and none of the session's state, history, summary
\* and image URL is written (nor any other session).
C12_EmptyRosterFails ==
    [][\A r \in Reqs :
          (/\ req[r].kind = "turn"
           /\ req[r].pc = "pending"
           /\ req[r].session_id \in DOMAIN GAMES
           /\ req'[r].pc # "pending")
          => LET sid == req[r].session_id
             IN  Len(GAMES[sid].agents) = 0 =>
                     /\ req'[r].pc = "returned"
                     /\ req'[r].ret = "IndexError"
                     /\ req'[r].calls = <<>>
                     /\ req'[r].current_actor = NoAgent
                     /\ DOMAIN GAMES' = DOMAIN GAMES
                     /\ StageOutput(GAMES'[sid]) = StageOutput(GAMES[sid])
                     /\ \A other \in DOMAIN GAMES \ {sid} :
                            GAMES'[other] = GAMES[other]
                     /\ trace' = trace]_vars

\* the second turn on a session without agents has ended with the IndexError
\* and the session holds no prose and no image
C12_Witness ==
    \E r \in Reqs :
        /\ TurnReturned(r)
        /\ req[r].ret = "IndexError"
        /\ req[r].calls = <<>>
        /\ GAMES[req[r].game].agents = <<>>
        /\ GAMES[req[r].game].turn_count = 2
        /\ GAMES[req[r].game].narrative_history = <<>>
        /\ GAMES[req[r].game].last_image_url = ""

-----------------------------------------------------------------------------
(* C13 *)

\* C13: in every reachable state of every registered session the four fields
\* of its StoryState are non-null.
C13_StateDefined ==
    \A sid \in DOMAIN GAMES :
        /\ GAMES[sid].state.location # None_
        /\ GAMES[sid].state.current_quest # None_
        /\ GAMES[sid].state.inventory # None_
        /\ GAMES[sid].state.active_threats # None_

-----------------------------------------------------------------------------
(* C14 *)

\* C14: the last_image_url of a session is the URL of its most recent
\* successful image generation, or "" if none has succeeded yet.
C14_LastSuccessfulImage ==
    \A sid \in DOMAIN GAMES :
        GAMES[sid].last_image_url = trace[sid].last_url

\* C14 as amended: the last_image_url of a session is what its most recent
\* image generation yielded, the URL if it succeeded and "" if it failed
\* (and "" before the first), whatever earlier generations yielded.
C14_LastImageResult ==
    \A sid \in DOMAIN GAMES :
        GAMES[sid].last_image_url = trace[sid].last_result

\* an image generation succeeded in an earlier turn, the one of the latest
\* turn failed, and the session's URL is empty
C14_Witness ==
    \E r \in Reqs :
        /\ TurnReturned(r) /\ req[r].ret = "session"
        /\ "image" \in req[r].failed
        /\ trace[req[r].game].last_url = "url1"
        /\ trace[req[r].game].last_result = ""
        /\ GAMES[req[r].game].last_image_url = ""
        /\ GAMES[req[r].game].turn_count = 2

-----------------------------------------------------------------------------
(* C15 *)

\* C15: with create_game calls and process_turn lookups interleaved in every
\* way, each session create_game returned is registered under its own
\* session_id, distinct from every other; an insertion removes or replaces
\* no entry; and every registered session, hence every session a lookup
\* returns, already has its starting location (not the constructor default).
C15_RegistrySafe ==
    /\ [](\A sid \in DOMAIN GAMES :
             /\ GAMES[sid].session_id = sid
             /\ GAMES[sid].state.location # StoryState.location)
    /\ [](\A r \in Reqs :
             (req[r].kind = "create" /\ req[r].pc = "returned"
                  /\ req[r].ret = "session") =>
                 /\ req[r].game \in DOMAIN GAMES
                 /\ GAMES[req[r].game].session_id = req[r].session.session_id
                 /\ GAMES[req[r].game].agents = req[r].session.agents
                 /\ \A q \in Reqs \ {r} :
                        req[q].session.session_id # req[r].session.session_id)
    /\ [][/\ \A sid \in DOMAIN GAMES :
               /\ sid \in DOMAIN GAMES'
               /\ GAMES'[sid].agents = GAMES[sid].agents
               /\ GAMES'[sid].setting = GAMES[sid].setting
               /\ GAMES'[sid].turn_count >= GAMES[sid].turn_count
          /\ \A r \in Reqs :
               (req[r].pc = "located" /\ req'[r].pc = "returned") =>
                   /\ req[r].session.session_id \notin DOMAIN GAMES
                   /\ DOMAIN GAMES' =
                          DOMAIN GAMES \cup {req[r].session.session_id}
                   /\ GAMES'[req[r].session.session_id] = req[r].session
          /\ \A r \in Reqs :
               (req[r].kind = "turn" /\ req[r].pc = "pending"
                    /\ req'[r].pc # "pending") =>
                   IF req[r].session_id \in DOMAIN GAMES
                   THEN req'[r].game = req[r].session_id
                   ELSE req'[r].ret = None_]_vars

\* two create_game calls that overlapped have both returned their sessions,
\* registered under different identifiers
C15_Witness ==
    \E r, q \in Reqs :
        /\ r # q
        /\ req[r].kind = "create" /\ req[q].kind = "create"
        /\ req[r].pc = "returned" /\ req[q].pc = "returned"
        /\ req[r].ret = "session" /\ req[q].ret = "session"
        /\ req[r].game # req[q].game
        /\ DOMAIN GAMES = {req[r].game, req[q].game}
        /\ GAMES[req[r].game].agents # GAMES[req[q].game].agents

-----------------------------------------------------------------------------
(* C16 *)

\* C16: with turns on different sessions interleaved in every way, a session
\* changes only in a step of a process_turn call made for it, and each
\* session counts and keeps exactly its own turns: turn_count is the number
\* of turns started on it and, when none is in progress, also the number of
\* its prose blocks and of the turns that returned it.
C16_SessionIsolation ==
    /\ [][\A sid \in DOMAIN GAMES :
              GAMES'[sid] # GAMES[sid] =>
                  \E r \in Reqs :
                      /\ req'[r] # req[r]
                      /\ req[r].kind = "turn"
                      /\ req'[r].game = sid
                      /\ IF req[r].pc = "pending"
                         THEN req[r].session_id = sid
                         ELSE req[r].game = sid /\ req[r].session_id = sid]_vars
    /\ [](\A sid \in DOMAIN GAMES :
             HasAgents(sid) =>
                 /\ GAMES[sid].turn_count = Len(trace[sid].actors)
                 /\ Quiet(sid) =>
                        /\ Len(GAMES[sid].narrative_history) =
                               GAMES[sid].turn_count
                        /\ trace[sid].returned = GAMES[sid].turn_count)

\* turns on two sessions are in progress at once; one session has its state
\* delta and prose, the other is still as created
C16_Witness ==
    \E r, q \in Reqs :
        /\ InTurn(r) /\ InTurn(q)
        /\ req[r].game # req[q].game
        /\ req[r].pc = "image"
        /\ req[q].pc = "react"
        /\ GAMES[req[r].game].state.location = "Hoehle"
        /\ GAMES[req[r].game].narrative_history = <<"Prosa">>
        /\ GAMES[req[q].game].narrative_history = <<>>
        /\ GAMES[req[q].game].state.location = "Hafen"

-----------------------------------------------------------------------------
(* C17 *)

\* a session that shares with game nothing but the roster, freshly
\* constructed and in its k-th turn
SideSession(game, k) ==
    [GameSession(UnknownId, "", game.agents, "") EXCEPT !.turn_count = k]

\* C17: on every turn k a session selected the actor that a session with the
\* same roster and nothing else in common (no intervention, no generation
\* result, the initial story state) selects on its turn k.
C17_SelectionByRosterAndTurn ==
    \A sid \in DOMAIN GAMES :
        HasAgents(sid) =>
            \A k \in 1 .. Len(trace[sid].actors) :
                trace[sid].actors[k] =
                    rotate_active_actor(SideSession(GAMES[sid], k)).actor.name

\* the fourth turn of a session whose state the earlier turns changed, made
\* with an intervention, has selected its actor after three different ones
C17_Witness ==
    \E r \in Reqs :
        /\ InTurn(r) /\ req[r].pc = "act"
        /\ req[r].user_intervention = "Ein Sturm zieht auf"
        /\ GAMES[req[r].game].state.location = "Hoehle"
        /\ GAMES[req[r].game].state.current_quest = "Finde den Schatz"
        /\ GAMES[req[r].game].plot_summary = "Kurzfassung"
        /\ trace[req[r].game].actors = <<"B", "C", "A", "B">>

-----------------------------------------------------------------------------
(* C18 *)

\* C18: the active_actor_name of the response built after a turn is the name
\* of the agent that acted in that turn, the one rotate_active_actor selected
\* for the session's current turn_count.
C18_ResponseNamesActor ==
    \A r \in Reqs :
        (TurnReturned(r) /\ req[r].ret = "session") =>
            LET game == GAMES[req[r].game]
            IN  /\ build_response(game).active_actor_name =
                       req[r].current_actor.name
                /\ build_response(game).active_actor_name =
                       rotate_active_actor(game).actor.name

-----------------------------------------------------------------------------
(* C19 *)

StageOrder == <<"act", "react", "gm", "narrate", "art", "image", "summary">>

StageIndex(stage) == CHOOSE i \in 1 .. Len(StageOrder) : StageOrder[i] = stage

\* C19: the external calls of a turn are issued in the order ACT, REACT, UPDATE
\* STATE, NARRATE, art prompt, image, COMPACT, each at most once (also after
\* a failure); REACT and COMPACT may be left out, no other stage is; and the
\* call a turn is blocked in is the last one it issued.
C19_StageOrder ==
    \A r \in Reqs :
        req[r].kind = "turn" =>
            LET calls == req[r].calls
            IN  /\ \A i \in 1 .. Len(calls) : calls[i] \in TurnStages
                /\ \A i, j \in 1 .. Len(calls) :
                       i < j => StageIndex(calls[i]) < StageIndex(calls[j])
                /\ \A i \in 1 .. Len(calls) :
                       \A stage \in {"act", "gm", "narrate", "art", "image"} :
                           StageIndex(stage) < StageIndex(calls[i]) =>
                               stage \in Range(calls)
                /\ InTurn(r) => (calls # <<>> /\ Last(calls) = req[r].pc)

\* a turn has returned after all seven calls, of which REACT and the image
\* call failed
C19_Witness ==
    \E r \in Reqs :
        /\ TurnReturned(r) /\ req[r].ret = "session"
        /\ req[r].calls = StageOrder
        /\ req[r].failed = {"react", "image"}

-----------------------------------------------------------------------------
(* C20 *)

\* the text field key of delta d is present and not null
Provided(d, key) == key \in DOMAIN d /\ d[key] # None_

\* request r takes the step from the return of the UPDATE STATE call to the
\* NARRATE call
GmApplied(r) == req[r].pc = "gm" /\ req'[r].pc = "narrate"

\* C20: after UPDATE STATE location is the delta's new_location if that field
\* is present and non-null and otherwise its value before, and likewise
\* current_quest with quest_update; the story state changes in nothing else.
C20_AppliesProvided ==
    [][\A r \in Reqs :
          GmApplied(r) =>
              LET d == req'[r].gm_data
                  old == GAMES[req[r].game].state
                  new == GAMES'[req[r].game].state
              IN  /\ new.location = IF Provided(d, "new_location")
                                    THEN d["new_location"] ELSE old.location
                  /\ new.current_quest = IF Provided(d, "quest_update")
                                         THEN d["quest_update"]
                                         ELSE old.current_quest
                  /\ new.inventory = old.inventory
                  /\ new.active_threats = old.active_threats]_vars

\* C20 as amended: location is the delta's new_location if that field is
\* present, non-null and not the empty text, and otherwise its value before;
\* likewise current_quest with quest_update; the empty delta of a failed
\* generation changes neither, and inventory and threats never change.
C20_AppliesNonEmpty ==
    [][\A r \in Reqs :
          GmApplied(r) =>
              LET d == req'[r].gm_data
                  old == GAMES[req[r].game].state
                  new == GAMES'[req[r].game].state
              IN  /\ new.location =
                         IF Provided(d, "new_location") /\ d["new_location"] # ""
                         THEN d["new_location"] ELSE old.location
                  /\ new.current_quest =
                         IF Provided(d, "quest_update") /\ d["quest_update"] # ""
                         THEN d["quest_update"] ELSE old.current_quest
                  /\ new.inventory = old.inventory
                  /\ new.active_threats = old.active_threats
                  /\ "gm" \in req'[r].failed => (d = EmptyDict /\ new = old)]_vars

\* a delta with an empty new_location and a new quest has been applied: the
\* location is the one from before, the quest is the new one
C20_Witness ==
    \E r \in Reqs :
        /\ InTurn(r) /\ req[r].pc = "narrate"
        /\ req[r].gm_data = GmQuest
        /\ GAMES[req[r].game].state.location = "Hoehle"
        /\ GAMES[req[r].game].state.current_quest = "Finde den Schatz"
        /\ GAMES[req[r].game].turn_count = 2

-----------------------------------------------------------------------------
(* C21 *)

-----------------------------------------------------------------------------
(* C22 *)

\* what create_game fixes of a session: identifier, scenario, style, and the
\* roster with every agent's fields and is_active flag
Identity(game) ==
    [session_id |-> game.session_id, setting |-> game.setting,
     visual_style |-> game.visual_style, agents |-> game.agents]

\* C22: no step of any turn changes a registered session's session_id,
\* setting, visual_style, ordered roster or any agent's is_active flag, so
\* after any number of turns they are as create_game returned them.
C22_IdentityUnchanged ==
    [][\A sid \in DOMAIN GAMES :
          /\ sid \in DOMAIN GAMES'
          /\ Identity(GAMES'[sid]) = Identity(GAMES[sid])]_vars

\* four turns have been played on a session whose cast mixes protagonists
\* and a mentor: the roster and the flags are those of its creation
C22_Witness ==
    \E sid \in DOMAIN GAMES :
        /\ Quiet(sid)
        /\ GAMES[sid].turn_count = 4
        /\ trace[sid].returned = 4
        /\ trace[sid].actors = <<"B", "A", "B", "A">>
        /\ Identity(GAMES[sid]) =
               Identity(build_session(CastMix, "Raubzug in der Wolkenstadt",
                                      sid).session)

-----------------------------------------------------------------------------
(* C23 *)

IsPrefix(a, b) == Len(a) <= Len(b) /\ SubSeq(b, 1, Len(a)) = a

\* request r takes the step from the return of the NARRATE call to the
\* art-director call
Narrated(r) == req[r].pc = "narrate" /\ req'[r].pc = "art"

\* C23: in every step (of any turn, compaction included, turns interleaved)
\* the narrative_history of a session before the step is a prefix of the one
\* after it; it grows only in the step in which a turn's NARRATE call
\* returns, and then by exactly one entry, that turn's prose, empty or not.
C23_AppendOnly ==
    [][/\ \A sid \in DOMAIN GAMES :
            /\ sid \in DOMAIN GAMES'
            /\ IsPrefix(GAMES[sid].narrative_history,
                        GAMES'[sid].narrative_history)
            /\ GAMES'[sid].narrative_history # GAMES[sid].narrative_history =>
                   \E r \in Reqs : Narrated(r) /\ req[r].game = sid
       /\ \A r \in Reqs :
            Narrated(r) =>
                GAMES'[req[r].game].narrative_history =
                    Append(GAMES[req[r].game].narrative_history,
                           req'[r].final_prose)]_vars

\* two turns of one session overlapped: one has returned after compacting,
\* the other has appended its prose after it, and the history holds three
\* blocks of which one is empty and one is not
C23_Witness ==
    \E r, q \in Reqs :
        /\ r # q
        /\ TurnReturned(r) /\ req[r].ret = "session"
        /\ "summary" \in Range(req[r].calls)
        /\ InTurn(q) /\ req[q].pc = "art"
        /\ req[q].game = req[r].game
        /\ trace[req[r].game].compactions = 1
        /\ Len(GAMES[req[r].game].narrative_history) = 3
        /\ GAMES[req[r].game].narrative_history[1] = "Prosa"
        /\ GAMES[req[r].game].narrative_history[3] = ""

-----------------------------------------------------------------------------
(* C24 *)

\* request r takes the step in which the call of _update_summary returns
Compacted(r) == req[r].pc = "summary" /\ req'[r].pc = "returned"

\* the texts the summary call can come back with: "" from the except branch
\* of call_llm, the provider's text otherwise
SummaryResult(failed) ==
    IF failed THEN {""}
    ELSE {o.content : o \in SummaryOutcomes \ {Raised}}

\* C24: a session is registered with the summary made from its scenario; its
\* plot_summary changes only in the step in which the compactor's call
\* returns; the call was made over the whole narrative_history, and the
\* summary then is exactly what the call yielded ("" when it failed), with
\* nothing of the summary before.
C24_SummaryReplaced ==
    [][/\ \A sid \in DOMAIN GAMES' \ DOMAIN GAMES :
            GAMES'[sid].plot_summary = InitialSummary(GAMES'[sid].setting)
       /\ \A sid \in DOMAIN GAMES :
            GAMES'[sid].plot_summary # GAMES[sid].plot_summary =>
                \E r \in Reqs : Compacted(r) /\ req[r].game = sid
       /\ \A r \in Reqs :
            (req[r].pc = "image" /\ req'[r].pc = "summary") =>
                req'[r].call.arguments.full_text =
                    GAMES'[req[r].game].narrative_history
       /\ \A r \in Reqs :
            Compacted(r) =>
                /\ GAMES'[req[r].game].plot_summary
                       \in SummaryResult("summary" \in req'[r].failed)
                /\ req[r].call.arguments.full_text =
                       GAMES[req[r].game].narrative_history]_vars

\* the compactor's call of the third turn failed: the summary made from the
\* scenario is gone and the summary is empty
C24_Witness ==
    \E r \in Reqs :
        /\ TurnReturned(r) /\ req[r].ret = "session"
        /\ "summary" \in req[r].failed
        /\ GAMES[req[r].game].turn_count = 3
        /\ GAMES[req[r].game].narrative_history = <<"Prosa", "", "Prosa">>
        /\ GAMES[req[r].game].setting = "Raubzug in der Wolkenstadt"
        /\ GAMES[req[r].game].plot_summary = ""

-----------------------------------------------------------------------------
(* C25 *)

\* the roster holds an agent besides the one that acts
HasOtherAgent(game) == Len(game.agents) >= 2

\* process_turn of request r is past the REACT stage
PastReact(r) ==
    /\ req[r].kind = "turn"
    /\ req[r].pc \in {"gm", "narrate"}

\* C25: a turn makes the REACT call if and only if the roster holds an agent
\* other than the actor; reaction_text is the response if that does not
\* contain "PASS", and empty if it does or if the call was not made.
C25_ReactGating ==
    \A r \in Reqs :
        PastReact(r) =>
            LET me == req[r]
                called == "react" \in Range(me.calls)
            IN  /\ called <=> HasOtherAgent(GAMES[me.game])
                /\ me.reaction_text =
                       IF called /\ ~ContainsPASS(me.reaction_raw)
                       THEN me.reaction_raw ELSE ""

-----------------------------------------------------------------------------
(* C26 *)

\* create_game has returned a session to request r
Created(r) ==
    req[r].kind = "create" /\ req[r].pc = "returned" /\ req[r].ret = "session"

\* C26: in the session create_game returns, the roster is the generated cast
\* in its order, an agent is eligible if and only if its generated role is
\* "Protagonist", turn_count is 0 and narrative_history is empty.
C26_EligibleByRole ==
    \A r \in Reqs :
        Created(r) =>
            LET game == GAMES[req[r].game]
                cast == Get(req[r].data, "agents", <<>>)
            IN  /\ Len(game.agents) = Len(cast)
                /\ \A i \in 1 .. Len(cast) :
                       /\ game.agents[i].name = cast[i].name
                       /\ game.agents[i].role = cast[i].role
                       /\ game.agents[i].is_active <=>
                              (cast[i].role = "Protagonist")
                /\ game.turn_count = 0
                /\ game.narrative_history = <<>>

\* create_game has returned a session for a cast of two protagonists and a
\* mentor between them: the first and the third agent are eligible
C26_Witness ==
    \E r \in Reqs :
        /\ Created(r)
        /\ req[r].data = CastMix
        /\ GAMES[req[r].game].agents[1].is_active
        /\ ~GAMES[req[r].game].agents[2].is_active
        /\ GAMES[req[r].game].agents[2].role = "Mentor"
        /\ GAMES[req[r].game].agents[3].is_active

-----------------------------------------------------------------------------
(* C27 *)

\* the roster of the session is not empty and none of its agents is eligible
NoneEligible(sid) == HasAgents(sid) /\ Len(Eligible(GAMES[sid])) = 0

-----------------------------------------------------------------------------
(* C28 *)

\* request r takes the step in which create_game inserts its session
Registered(r) ==
    req[r].kind = "create" /\ req[r].pc = "located" /\ req'[r].pc = "returned"

\* C28: every registry entry maps its key to a session with that session_id;
\* the set of keys changes only when a create_game inserts its session, and
\* then grows by that session's identifier; no entry is removed or replaced
\* by another session; and a process_turn for a registered identifier finds
\* the session of that identifier, never None.
C28_RegistryStable ==
    /\ [](\A sid \in DOMAIN GAMES : GAMES[sid].session_id = sid)
    /\ [][/\ \A sid \in DOMAIN GAMES :
               /\ sid \in DOMAIN GAMES'
               /\ Identity(GAMES'[sid]) = Identity(GAMES[sid])
               /\ IsPrefix(GAMES[sid].narrative_history,
                           GAMES'[sid].narrative_history)
          /\ DOMAIN GAMES' # DOMAIN GAMES =>
               \E r \in Reqs :
                   /\ Registered(r)
                   /\ DOMAIN GAMES' =
                          DOMAIN GAMES \cup {req[r].session.session_id}
          /\ \A r \in Reqs :
               (/\ req[r].kind = "turn"
                /\ req[r].pc = "pending"
                /\ req'[r].pc # "pending"
                /\ req[r].session_id \in DOMAIN GAMES) =>
                   /\ req'[r].ret # None_
                   /\ req'[r].game = req[r].session_id
                   /\ GAMES'[req'[r].game].session_id = req[r].session_id]_vars

\* the second turn for the session registered first has found it after a
\* second session was registered
C28_Witness ==
    \E r \in Reqs :
        /\ InTurn(r) /\ req[r].pc = "act"
        /\ req[r].game = req[r].session_id
        /\ Cardinality(DOMAIN GAMES) = 2
        /\ GAMES[req[r].game].turn_count = 2
        /\ \E other \in DOMAIN GAMES :
               /\ other # req[r].game
               /\ GAMES[other].turn_count = 0
               /\ GAMES[other].agents # GAMES[req[r].game].agents

-----------------------------------------------------------------------------
(* C29 *)

\* request r takes the step in which its process_turn ends with the
\* IndexError of the empty roster
RosterError(r) ==
    /\ req[r].kind = "turn"
    /\ req[r].pc = "pending"
    /\ req'[r].pc = "returned"
    /\ req'[r].ret = "IndexError"

\* C29: a process_turn that ends with the empty-roster error has made no
\* generation call, and the session after it is the session before it with
\* turn_count one higher and nothing else changed (history, summary, story
\* state, image URL, identity and roster as they were).
C29_FailedTurnCounts ==
    [][\A r \in Reqs :
          RosterError(r) =>
              LET sid == req[r].session_id
              IN  /\ req'[r].calls = <<>>
                  /\ req'[r].game = sid
                  /\ GAMES'[sid].turn_count = GAMES[sid].turn_count + 1
                  /\ GAMES' = [GAMES EXCEPT
                                  ![sid].turn_count = GAMES'[sid].turn_count]]_vars

\* the third turn on a session without agents has ended with the error:
\* turn_count is 3, and no prose, image or compaction has come of it
C29_Witness ==
    \E r \in Reqs :
        /\ TurnReturned(r)
        /\ req[r].ret = "IndexError"
        /\ GAMES[req[r].game].turn_count = 3
        /\ trace[req[r].game].compactions = 0
        /\ StageOutput(GAMES[req[r].game]) =
               StageOutput(build_session(EmptyDict, GAMES[req[r].game].setting,
                                         req[r].game).session)

-----------------------------------------------------------------------------
(* C30 *)

\* C30: with the turns of a session overlapping at their generation calls,
\* once all of them have completed on a session with agents, the compactor
\* has been called floor(turn_count / 3) times.
C30_CompactionCountOverlap ==
    \A sid \in DOMAIN GAMES :
        (HasAgents(sid) /\ Quiet(sid)) =>
            trace[sid].compactions = GAMES[sid].turn_count \div 3

====
